---- MODULE Spec2Model ----
(***************************************************************************)
(* Verification model of the ai_agent repository: the invocation-counting  *)
(* plugins, the simulated smart-home tool functions, and the session /     *)
(* memory helpers that wrap the agent SDK.                                 *)
(*                                                                         *)
(* Python strings whose characters matter (agent names searched for a      *)
(* substring, values tested with isdigit, routine names that are           *)
(* lower-cased) are sequences of one-character strings.  f-strings are     *)
(* tuples of their literal and interpolated parts.                         *)
(***************************************************************************)
EXTENDS Integers, Sequences, FiniteSets, TLC

\* ------------------------------------------------------------------------
\* Bounds
\* ------------------------------------------------------------------------
\* callbacks / tool calls delivered to one plugin instance
MaxCalls == 4
\* events one session may hold
MaxEvents == 4
\* queries handed to one run_session call
MaxQueries == 2
\* runs of the script (process starts)
MaxRuns == 2
\* /research requests the server accepts
MaxRequests == 3

\* ------------------------------------------------------------------------
\* Text helpers (Python str operations)
\* ------------------------------------------------------------------------
UpperChars == <<"A","B","C","D","E","F","G","H","I","J","K","L","M","N","O","P","Q","R","S","T","U","V","W","X","Y","Z">>
LowerChars == <<"a","b","c","d","e","f","g","h","i","j","k","l","m","n","o","p","q","r","s","t","u","v","w","x","y","z">>
DigitChars == <<"0","1","2","3","4","5","6","7","8","9">>

\* str.lower() on one character
LowerChar(c) ==
    IF \E i \in 1..Len(UpperChars) : UpperChars[i] = c
    THEN LowerChars[CHOOSE i \in 1..Len(UpperChars) : UpperChars[i] = c]
    ELSE c

\* str.lower()
Lower(s) == [i \in 1..Len(s) |-> LowerChar(s[i])]

\* Python's `sub in s` for strings
Contains(sub, s) ==
    \E i \in 0..(Len(s) - Len(sub)) : SubSeq(s, i + 1, i + Len(sub)) = sub

\* ------------------------------------------------------------------------
\* Agent names (src/agents/research_agent/agent.py, src/session.py,
\* src/memory_mgmt.py) and the two substrings the research plugins look for
\* ------------------------------------------------------------------------
research_search_agent == <<"r","e","s","e","a","r","c","h","_","s","e","a","r","c","h","_","a","g","e","n","t">>
research_analysis_agent == <<"r","e","s","e","a","r","c","h","_","a","n","a","l","y","s","i","s","_","a","g","e","n","t">>
advanced_research_agent == <<"a","d","v","a","n","c","e","d","_","r","e","s","e","a","r","c","h","_","a","g","e","n","t">>
text_chat_bot == <<"t","e","x","t","_","c","h","a","t","_","b","o","t">>
AutoMemoryAgent == <<"A","u","t","o","M","e","m","o","r","y","A","g","e","n","t">>
\* a name that holds "analysis" (in capitals) and not "search": any agent may
\* be run under a runner the plugin is registered on
PaperAnalysisAgent == <<"P","a","p","e","r","A","n","a","l","y","s","i","s","A","g","e","n","t">>
SearchWord == <<"s","e","a","r","c","h">>
AnalysisWord == <<"a","n","a","l","y","s","i","s">>

AgentNames ==
    {research_search_agent, research_analysis_agent, advanced_research_agent,
     text_chat_bot, AutoMemoryAgent, PaperAnalysisAgent}

\* getattr(callback_context, "session_id", "unknown"): the attribute is
\* missing ("<noattr>") or holds a session id
NoAttr == "<noattr>"
CtxSessionIds == {NoAttr, "s1"}
CtxTimestamps == {NoAttr, "t1"}
CallbackContexts == [session_id : CtxSessionIds, timestamp : CtxTimestamps]

\* the three plugin classes: CountInvocationPlugin and ResearchInvocationPlugin
\* of src/invocation_plugin.py, CountInvocationPlugin of
\* src/agents/research_agent/agent.py
PluginKinds == {"basic", "research", "integrated"}

VARIABLES
    \* ---- plugin instance --------------------------------------------
    kind,               \* which class the instance is
    agent_count, tool_count, llm_request_count,
    session_stats,      \* session id -> [agent_calls, llm_requests, start_time]
    search_queries, paper_analyses, quality_checks,
    lastCall,           \* the callback the runner delivered last
    n_before_agent,     \* before_agent_callback invocations since construction / reset
    n_before_model,     \* before_model_callback invocations since construction / reset
    n_tool_calls,       \* tool calls made by the runner since construction / reset
    calls,              \* callbacks delivered since construction
    \* ---- smart-home tool functions ----------------------------------
    baseline,           \* what the read-only functions returned at the start
    lastHomeCall,       \* the last control_device / create_automation_routine call
    result,             \* what that call returned
    observed,           \* the last read-out and the command it followed
    \* ---- sessions and memory (SDK services the helpers are wired to) -
    db,                 \* agent_sessions.db: <<app_name, session_id>> -> events
    memory,             \* the InMemoryMemoryService: session id -> events saved
    written,            \* <<run, session id, n>>: event n was saved to memory in that run
    stored,             \* events appended under PERSISTENT_SESSION_ID: in all, and before this run began
    run,                \* which run of the script this is
    last,               \* the last helper call and how it ended
    \* ---- src/session.py: the module's globals and its session services
    session_service,    \* the service the module-level name is bound to
    stores,             \* service -> (<<app_name, session_id>> -> events)
    lastSession,        \* the last run_session call of session.py and how it ended
    \* ---- src/research_agent.py: /research requests on the server's threads
    pc,                 \* thread -> where its request handler is
    request,            \* thread -> the request it is serving
    instances,          \* session service instance -> (session id -> events)
    served              \* requests accepted since the server started

pluginVars ==
    <<kind, agent_count, tool_count, llm_request_count, session_stats,
      search_queries, paper_analyses, quality_checks, lastCall,
      n_before_agent, n_before_model, n_tool_calls, calls>>

homeVars == <<baseline, lastHomeCall, result, observed>>

sdkVars == <<db, memory, written, stored, run, last>>

sessVars == <<session_service, stores, lastSession>>

webVars == <<pc, request, instances, served>>

vars == <<pluginVars, homeVars, sdkVars, sessVars, webVars>>

\* ------------------------------------------------------------------------
\* Plugins
\* ------------------------------------------------------------------------
NoCall == [cb |-> "none", agent |-> <<>>]

\* __init__ of the three classes; create_invocation_plugin picks between the
\* two standalone ones, the integrated one is the module-level research_plugin
PluginInit ==
    /\ kind \in PluginKinds
    /\ agent_count = 0
    /\ tool_count = 0
    /\ llm_request_count = 0
    /\ session_stats = <<>>
    /\ search_queries = 0
    /\ paper_analyses = 0
    /\ quality_checks = 0
    /\ lastCall = NoCall
    /\ n_before_agent = 0
    /\ n_before_model = 0
    /\ n_tool_calls = 0
    /\ calls = 0

\* session_id = getattr(callback_context, "session_id", "unknown")
SessionIdOf(callback_context) ==
    IF callback_context.session_id = NoAttr THEN "unknown"
    ELSE callback_context.session_id

\* callback_context.timestamp if hasattr(callback_context, "timestamp") else None
StartTimeOf(callback_context) ==
    IF callback_context.timestamp = NoAttr THEN "None"
    ELSE callback_context.timestamp

\* the per-session bookkeeping of the standalone before_agent_callback
TrackAgentCall(stats, callback_context) ==
    LET sid == SessionIdOf(callback_context)
        withEntry ==
            IF sid \in DOMAIN stats THEN stats
            ELSE [s \in DOMAIN stats \cup {sid} |->
                    IF s = sid
                    THEN [agent_calls |-> 0, llm_requests |-> 0,
                          start_time |-> StartTimeOf(callback_context)]
                    ELSE stats[s]]
    IN [withEntry EXCEPT ![sid].agent_calls = @ + 1]

\* the per-session bookkeeping of the standalone before_model_callback
TrackModelCall(stats, callback_context) ==
    LET sid == SessionIdOf(callback_context)
    IN IF sid \in DOMAIN stats
       THEN [stats EXCEPT ![sid].llm_requests = @ + 1]
       ELSE stats

Delivered(cb, agent) ==
    /\ calls < MaxCalls
    /\ calls' = calls + 1
    /\ lastCall' = [cb |-> cb, agent |-> agent]
    /\ UNCHANGED <<homeVars, sdkVars, sessVars, webVars>>

\* CountInvocationPlugin.before_agent_callback (standalone)
CountInvocationPlugin_before_agent_callback(agent, callback_context) ==
    /\ kind = "basic"
    /\ Delivered("before_agent", agent)
    /\ agent_count' = agent_count + 1
    /\ session_stats' = TrackAgentCall(session_stats, callback_context)
    /\ n_before_agent' = n_before_agent + 1
    /\ UNCHANGED <<kind, tool_count, llm_request_count, search_queries,
                   paper_analyses, quality_checks, n_before_model, n_tool_calls>>

\* ResearchInvocationPlugin.before_agent_callback: super() then the
\* research-specific tracking
ResearchInvocationPlugin_before_agent_callback(agent, callback_context) ==
    /\ kind = "research"
    /\ Delivered("before_agent", agent)
    /\ agent_count' = agent_count + 1
    /\ session_stats' = TrackAgentCall(session_stats, callback_context)
    /\ IF Contains(SearchWord, Lower(agent))
       THEN search_queries' = search_queries + 1 /\ paper_analyses' = paper_analyses
       ELSE IF Contains(AnalysisWord, Lower(agent))
            THEN paper_analyses' = paper_analyses + 1 /\ search_queries' = search_queries
            ELSE UNCHANGED <<search_queries, paper_analyses>>
    /\ n_before_agent' = n_before_agent + 1
    /\ UNCHANGED <<kind, tool_count, llm_request_count, quality_checks,
                   n_before_model, n_tool_calls>>

\* CountInvocationPlugin.before_agent_callback (integrated in the research agent)
IntegratedPlugin_before_agent_callback(agent, callback_context) ==
    /\ kind = "integrated"
    /\ Delivered("before_agent", agent)
    /\ agent_count' = agent_count + 1
    /\ IF Contains(SearchWord, Lower(agent))
       THEN search_queries' = search_queries + 1 /\ paper_analyses' = paper_analyses
       ELSE IF Contains(AnalysisWord, Lower(agent))
            THEN paper_analyses' = paper_analyses + 1 /\ search_queries' = search_queries
            ELSE UNCHANGED <<search_queries, paper_analyses>>
    /\ n_before_agent' = n_before_agent + 1
    /\ UNCHANGED <<kind, tool_count, llm_request_count, session_stats,
                   quality_checks, n_before_model, n_tool_calls>>

\* the same callback with the increment moved under the session test: requests
\* of sessions the plugin has not seen an agent call for go uncounted
CountInvocationPlugin_before_model_callback_known_sessions_only(callback_context) ==
    /\ kind \in {"basic", "research"}
    /\ Delivered("before_model", <<>>)
    /\ llm_request_count' =
          IF SessionIdOf(callback_context) \in DOMAIN session_stats
          THEN llm_request_count + 1 ELSE llm_request_count
    /\ session_stats' = TrackModelCall(session_stats, callback_context)
    /\ n_before_model' = n_before_model + 1
    /\ UNCHANGED <<kind, agent_count, tool_count, search_queries, paper_analyses,
                   quality_checks, n_before_agent, n_tool_calls>>

\* CountInvocationPlugin.before_model_callback (standalone; inherited by
\* ResearchInvocationPlugin)
CountInvocationPlugin_before_model_callback(callback_context) ==
    /\ kind \in {"basic", "research"}
    /\ Delivered("before_model", <<>>)
    /\ llm_request_count' = llm_request_count + 1
    /\ session_stats' = TrackModelCall(session_stats, callback_context)
    /\ n_before_model' = n_before_model + 1
    /\ UNCHANGED <<kind, agent_count, tool_count, search_queries, paper_analyses,
                   quality_checks, n_before_agent, n_tool_calls>>

\* CountInvocationPlugin.before_model_callback (integrated)
IntegratedPlugin_before_model_callback(callback_context) ==
    /\ kind = "integrated"
    /\ Delivered("before_model", <<>>)
    /\ llm_request_count' = llm_request_count + 1
    /\ n_before_model' = n_before_model + 1
    /\ UNCHANGED <<kind, agent_count, tool_count, session_stats, search_queries,
                   paper_analyses, quality_checks, n_before_agent, n_tool_calls>>

\* after_agent_callback: the standalone classes only log; the integrated class
\* does not define it (the SDK base class's hook does nothing)
after_agent_callback(agent, callback_context) ==
    /\ Delivered("after_agent", agent)
    /\ UNCHANGED <<kind, agent_count, tool_count, llm_request_count, session_stats,
                   search_queries, paper_analyses, quality_checks,
                   n_before_agent, n_before_model, n_tool_calls>>

\* The runner runs a tool.  None of the three classes defines a tool callback
\* and nothing else writes tool_count, so the plugin's state is untouched.
ToolCall ==
    /\ Delivered("tool", <<>>)
    /\ n_tool_calls' = n_tool_calls + 1
    /\ UNCHANGED <<kind, agent_count, tool_count, llm_request_count, session_stats,
                   search_queries, paper_analyses, quality_checks,
                   n_before_agent, n_before_model>>

\* CountInvocationPlugin.reset_stats (standalone; inherited unchanged by
\* ResearchInvocationPlugin; the integrated class has no reset_stats)
reset_stats ==
    /\ kind \in {"basic", "research"}
    /\ agent_count' = 0
    /\ tool_count' = 0
    /\ llm_request_count' = 0
    /\ session_stats' = <<>>
    /\ lastCall' = [cb |-> "reset", agent |-> <<>>]
    /\ n_before_agent' = 0
    /\ n_before_model' = 0
    /\ n_tool_calls' = 0
    /\ UNCHANGED <<kind, search_queries, paper_analyses, quality_checks, calls>>
    /\ UNCHANGED <<homeVars, sdkVars, sessVars, webVars>>

\* get_stats of the standalone classes
CountInvocationPlugin_get_stats ==
    [total_agent_count |-> agent_count,
     total_llm_request_count |-> llm_request_count,
     total_tool_count |-> tool_count,
     session_stats |-> session_stats,
     active_sessions |-> Cardinality(DOMAIN session_stats)]

\* get_stats of the integrated class
IntegratedPlugin_get_stats ==
    [agent_count |-> agent_count,
     llm_request_count |-> llm_request_count,
     search_queries |-> search_queries,
     paper_analyses |-> paper_analyses]

get_stats ==
    IF kind = "integrated" THEN IntegratedPlugin_get_stats
    ELSE CountInvocationPlugin_get_stats

\* ResearchInvocationPlugin.get_research_stats: get_stats() updated with the
\* three research counters
get_research_stats ==
    [total_agent_count |-> agent_count,
     total_llm_request_count |-> llm_request_count,
     total_tool_count |-> tool_count,
     session_stats |-> session_stats,
     active_sessions |-> Cardinality(DOMAIN session_stats),
     search_queries |-> search_queries,
     paper_analyses |-> paper_analyses,
     quality_checks |-> quality_checks]

PluginNext ==
    \/ \E a \in AgentNames, c \in CallbackContexts :
          CountInvocationPlugin_before_agent_callback(a, c)
    \/ \E a \in AgentNames, c \in CallbackContexts :
          ResearchInvocationPlugin_before_agent_callback(a, c)
    \/ \E a \in AgentNames, c \in CallbackContexts :
          IntegratedPlugin_before_agent_callback(a, c)
    \/ \E c \in CallbackContexts : CountInvocationPlugin_before_model_callback(c)
    \/ \E c \in CallbackContexts : IntegratedPlugin_before_model_callback(c)
    \/ \E a \in AgentNames, c \in CallbackContexts : after_agent_callback(a, c)
    \/ ToolCall
    \/ reset_stats


\* ------------------------------------------------------------------------
\* Smart-home tool functions (src/agents/home_automation_agent/agent.py)
\* ------------------------------------------------------------------------

\* whether the last command returned success = True
LastSucceeded == "success" \in DOMAIN result /\ result.success

\* the fixture list
DeviceFixtures ==
    << [id |-> "living_room_lights", name |-> "Living Room Lights",
        type |-> "lights", brand |-> "Philips Hue", status |-> "on",
        brightness |-> 75, color |-> "warm_white", room |-> "living_room"],
       [id |-> "bedroom_thermostat", name |-> "Bedroom Thermostat",
        type |-> "thermostat", brand |-> "Nest", status |-> "heating",
        current_temp |-> 68, target_temp |-> 72, room |-> "bedroom"],
       [id |-> "front_door_lock", name |-> "Front Door Smart Lock",
        type |-> "lock", brand |-> "August", status |-> "locked",
        battery_level |-> 85, room |-> "entrance"],
       [id |-> "kitchen_camera", name |-> "Kitchen Security Camera",
        type |-> "camera", brand |-> "Ring", status |-> "recording",
        motion_detected |-> FALSE, room |-> "kitchen"],
       [id |-> "garage_door", name |-> "Garage Door Opener",
        type |-> "garage_door", brand |-> "Chamberlain", status |-> "closed",
        room |-> "garage"] >>

\* a device list that remembers the last successful on / off command
list_smart_devices_remembering ==
    [i \in 1..Len(DeviceFixtures) |->
        IF /\ lastHomeCall.fn = "control_device"
           /\ LastSucceeded
           /\ lastHomeCall.device_id = DeviceFixtures[i].id
           /\ lastHomeCall.action \in {"on", "off"}
        THEN [DeviceFixtures[i] EXCEPT !.status = lastHomeCall.action]
        ELSE DeviceFixtures[i]]

\* list_smart_devices(): the list literal is rebuilt on every call
list_smart_devices == DeviceFixtures

\* get_energy_usage(); a float literal is the string of its digits
get_energy_usage ==
    [current_usage_kw |-> "2.3",
     daily_usage_kwh |-> "28.5",
     monthly_usage_kwh |-> 847,
     cost_today |-> "3.42",
     cost_month |-> "101.64",
     peak_hours |-> <<"6:00 PM", "7:00 PM", "8:00 PM">>,
     device_breakdown |->
        [HVAC |-> [usage_kwh |-> "15.2", percentage |-> "53.3"],
         Lighting |-> [usage_kwh |-> "3.8", percentage |-> "13.3"],
         KitchenAppliances |-> [usage_kwh |-> "4.1", percentage |-> "14.4"],
         Entertainment |-> [usage_kwh |-> "2.9", percentage |-> "10.2"],
         Other |-> [usage_kwh |-> "2.5", percentage |-> "8.8"]],
     recommendations |->
        <<"Consider lowering thermostat by 2F during peak hours to save $12/month",
          "LED bulb upgrades could save $8/month on lighting costs",
          "Smart power strips could reduce phantom loads by 5-10%">>]

\* check_security_status()
check_security_status ==
    [overall_status |-> "secure",
     armed |-> TRUE,
     devices |->
        [door_locks |->
            [front_door |-> [status |-> "locked", battery |-> 85],
             back_door |-> [status |-> "locked", battery |-> 78]],
         cameras |->
            [kitchen |-> [status |-> "recording", motion |-> FALSE],
             front_yard |-> [status |-> "recording", motion |-> FALSE],
             backyard |-> [status |-> "recording", motion |-> TRUE,
                           alert |-> "Cat detected"]],
         sensors |->
            [motion_living_room |-> [status |-> "clear"],
             door_bedroom |-> [status |-> "closed"],
             window_kitchen |-> [status |-> "closed"]]],
     recent_activity |->
        <<[time |-> "2:30 PM", event |-> "Front door unlocked (mobile app)"],
          [time |-> "2:28 PM", event |-> "Motion detected - backyard camera"],
          [time |-> "1:45 PM", event |-> "Kitchen window opened"]>>,
     alerts |->
        <<[level |-> "info", message |-> "All entry points secure"],
          [level |-> "low", message |-> "Backyard motion - likely animal"]>>]

\* a character str.isdigit() accepts and int() rejects (superscript two)
SuperscriptTwo == "SUPERSCRIPT TWO"

\* str.isdigit(): non-empty and every character a digit
IsDigit(s) ==
    /\ Len(s) > 0
    /\ \A i \in 1..Len(s) :
          \/ \E d \in 1..Len(DigitChars) : DigitChars[d] = s[i]
          \/ s[i] = SuperscriptTwo

\* int() accepts the string: decimal digits only
IntAccepts(s) ==
    /\ Len(s) > 0
    /\ \A i \in 1..Len(s) : \E d \in 1..Len(DigitChars) : DigitChars[d] = s[i]

DigitValue(c) == (CHOOSE d \in 1..Len(DigitChars) : DigitChars[d] = c) - 1

\* int(s) for a string of decimal digits
RECURSIVE IntOf(_)
IntOf(s) ==
    IF Len(s) = 0 THEN 0
    ELSE 10 * IntOf(SubSeq(s, 1, Len(s) - 1)) + DigitValue(s[Len(s)])

\* the same lookup with the first device as the default instead of None
FindDevice_default_first(devices, device_id) ==
    LET matches == SelectSeq(devices, LAMBDA d : d.id = device_id)
    IN IF Len(matches) = 0 THEN <<devices[1]>> ELSE <<matches[1]>>

\* next((d for d in devices if d["id"] == device_id), None): the empty
\* sequence stands for None, a one-element sequence holds the device
FindDevice(devices, device_id) ==
    LET matches == SelectSeq(devices, LAMBDA d : d.id = device_id)
    IN IF Len(matches) = 0 THEN <<>> ELSE <<matches[1]>>

ValueError == [raised |-> "ValueError"]

\* the record r with r[k] = v added (dict item assignment)
SetItem(r, k, v) == [f \in DOMAIN r \cup {k} |-> IF f = k THEN v ELSE r[f]]

\* control_device(device_id, action, value): the value returned, or the
\* exception int() raises
control_device(device_id, action, value) ==
    LET found == FindDevice(list_smart_devices, device_id)
        device == found[1]
        base == [success |-> TRUE, device |-> device.name, action |-> action]
        numeric == Len(value) > 0 /\ IsDigit(value)
    IN
    IF found = <<>>
    THEN [success |-> FALSE, error |-> <<"Device ", device_id, " not found">>]
    ELSE IF device.type = "lights"
    THEN IF action = "on"
         THEN IF numeric
              THEN SetItem(SetItem(base, "status", <<"Light turned on">>),
                           "brightness", <<value, "%">>)
              ELSE SetItem(base, "status", <<"Light turned on">>)
         ELSE IF action = "off"
         THEN SetItem(base, "status", <<"Light turned off">>)
         ELSE IF action = "set_brightness"
         THEN IF numeric /\ ~IntAccepts(value) THEN ValueError
              ELSE SetItem(base, "status",
                     <<"Brightness set to ",
                       IF numeric THEN IntOf(value) ELSE 50, "%">>)
         ELSE base
    ELSE IF device.type = "thermostat"
    THEN IF action = "set_temperature"
         THEN IF numeric /\ ~IntAccepts(value) THEN ValueError
              ELSE SetItem(base, "status",
                     <<"Temperature set to ",
                       IF numeric THEN IntOf(value) ELSE 70, "F">>)
         ELSE base
    ELSE IF device.type = "lock"
    THEN IF action = "lock" THEN SetItem(base, "status", <<"Door locked">>)
         ELSE IF action = "unlock" THEN SetItem(base, "status", <<"Door unlocked">>)
         ELSE base
    ELSE IF device.type = "garage_door"
    THEN IF action = "open" THEN SetItem(base, "status", <<"Garage door opening">>)
         ELSE IF action = "close" THEN SetItem(base, "status", <<"Garage door closing">>)
         ELSE base
    ELSE base

\* str.replace(' ', '_')
ReplaceSpaces(s) == [i \in 1..Len(s) |-> IF s[i] = " " THEN "_" ELSE s[i]]

RoutinePrefix == <<"r","o","u","t","i","n","e","_">>

\* create_automation_routine(name, trigger, actions_description); now is
\* datetime.now().isoformat()
create_automation_routine(name, trigger, actions_description, now) ==
    [success |-> TRUE,
     routine |->
        [id |-> RoutinePrefix \o ReplaceSpaces(Lower(name)),
         name |-> name,
         trigger |-> trigger,
         actions_description |-> actions_description,
         created_at |-> now,
         enabled |-> TRUE,
         last_run |-> "None"],
     message |-> <<"Automation routine '", name, "' created successfully">>]

\* ---- inputs ----
KnownDeviceIds == {list_smart_devices[i].id : i \in 1..Len(list_smart_devices)}
DeviceIds ==
    {"living_room_lights", "bedroom_thermostat", "front_door_lock",
     "kitchen_camera", "garage_door", "unknown_device"}
DeviceActions ==
    {"on", "off", "set_brightness", "set_temperature", "lock", "unlock",
     "open", "close", "dim"}
DeviceValues == {<<>>, <<"8","0">>, <<"a","b","c">>, <<SuperscriptTwo>>}
RoutineNames == {<<"G","o","o","d"," ","N","i","g","h","t"," ","R","o","u","t","i","n","e">>, <<"B","e","d","t","i","m","e">>}
RoutineTriggers == {"time:10:00 PM", "manual"}
RoutineDescriptions == {"Multiple smart home actions", "Dim lights to 50%"}
ClockValues == {"2026-01-01T22:00:00", "2026-01-02T07:00:00"}

NoHomeCall == [fn |-> "none", device_id |-> "", action |-> ""]
NotObserved == [fn |-> "none", after |-> NoHomeCall, after_success |-> FALSE]

HomeInit ==
    /\ lastHomeCall = NoHomeCall
    /\ result = [none |-> TRUE]
    /\ observed = NotObserved
    /\ baseline = [devices |-> list_smart_devices,
                   security |-> check_security_status,
                   energy |-> get_energy_usage]

\* a caller (the agent's tool dispatch, the demo script) calls control_device
ControlDevice(device_id, action, value) ==
    /\ lastHomeCall' = [fn |-> "control_device", device_id |-> device_id,
                        action |-> action]
    /\ result' = control_device(device_id, action, value)
    /\ UNCHANGED <<baseline, observed>>
    /\ UNCHANGED <<pluginVars, sdkVars, sessVars, webVars>>

\* a caller calls create_automation_routine
CreateAutomationRoutine(name, trigger, actions_description, now) ==
    /\ lastHomeCall' = [fn |-> "create_automation_routine", device_id |-> "",
                        action |-> ""]
    /\ result' = create_automation_routine(name, trigger, actions_description, now)
    /\ UNCHANGED <<baseline, observed>>
    /\ UNCHANGED <<pluginVars, sdkVars, sessVars, webVars>>

Observe(fn, value) ==
    /\ observed' = [fn |-> fn, after |-> lastHomeCall,
                    after_success |-> LastSucceeded, value |-> value]
    /\ UNCHANGED <<baseline, lastHomeCall, result>>
    /\ UNCHANGED <<pluginVars, sdkVars, sessVars, webVars>>

\* a caller reads the device list
ListSmartDevices == Observe("list_smart_devices", list_smart_devices)

\* a caller reads the security status
CheckSecurityStatus == Observe("check_security_status", check_security_status)

\* a caller reads the energy usage
GetEnergyUsage == Observe("get_energy_usage", get_energy_usage)

HomeNext ==
    \/ \E d \in DeviceIds, a \in DeviceActions, v \in DeviceValues :
          ControlDevice(d, a, v)
    \/ \E n \in RoutineNames, t \in RoutineTriggers,
          ad \in RoutineDescriptions, now \in ClockValues :
          CreateAutomationRoutine(n, t, ad, now)
    \/ ListSmartDevices
    \/ CheckSecurityStatus
    \/ GetEnergyUsage

\* ------------------------------------------------------------------------
\* Sessions and memory (src/memory_mgmt.py, src/test_memory.py)
\* ------------------------------------------------------------------------
APP_NAME == "StatefulAgentApp"
USER_ID == "demo_user"
PERSISTENT_SESSION_ID == "demo_user_main_session"
\* a session id no helper creates a session under
OtherSessionId == "other_session"
NoneId == "None"

\* the value None where a session object is expected
NoneSession == [is_none |-> TRUE]
IsNone(x) == "is_none" \in DOMAIN x

\* the events one turn of run_async adds to the session: the user's message
\* and the agent's reply
TurnEvents == <<"user", "model">>

\* session_service.get_session(app_name, user_id, session_id): the stored
\* session, or None when there is none
get_session(sessions, app_name, session_id) ==
    IF <<app_name, session_id>> \in DOMAIN sessions
    THEN [id |-> session_id, events |-> sessions[<<app_name, session_id>>]]
    ELSE NoneSession

\* the sessions with the events of <<app_name, session_id>> set to events
PutSession(sessions, app_name, session_id, events) ==
    [k \in DOMAIN sessions \cup {<<app_name, session_id>>} |->
        IF k = <<app_name, session_id>> THEN events ELSE sessions[k]]

\* memory_service.add_session_to_memory(session): the service keeps the
\* session's events under its id
add_session_to_memory(mem, session) ==
    [k \in DOMAIN mem \cup {session.id} |->
        IF k = session.id THEN session.events ELSE mem[k]]

\* the events add_session_to_memory(session) writes, tagged with the run
WrittenBy(r, session) ==
    {<<r, session.id, n>> : n \in 1..Len(session.events)}

\* ---- the callback context, as auto_save_to_memory probes it ----
\* attributes "invocation_context", "_invocation_context", "context": each is
\* missing / None, or a context whose session is None, or a context with a
\* session object
CtxAbsent == [present |-> FALSE]
CtxNoSession == [present |-> TRUE, has_session |-> FALSE]
CtxSession(id, events) ==
    [present |-> TRUE, has_session |-> TRUE, id |-> id, events |-> events]

\* the context the SDK runner hands to an agent's after_agent_callback: its
\* _invocation_context holds the session the turn ran in
SdkContext(session) ==
    [ics |-> <<CtxAbsent, CtxSession(session.id, session.events), CtxAbsent>>,
     session_id |-> NoneId,
     likes |-> <<>>]

\* the loop over the three attribute names: the id of the first session
\* object found (which may be None), None when no attribute has a session
RECURSIVE FirstContextSession(_, _)
FirstContextSession(ics, i) ==
    IF i > Len(ics) THEN NoneId
    ELSE IF ics[i].present /\ ics[i].has_session THEN ics[i].id
    ELSE FirstContextSession(ics, i + 1)

\* the scan of dir(callback_context) for an attribute with an id and events
RECURSIVE FirstSessionLike(_, _)
FirstSessionLike(likes, i) ==
    IF i > Len(likes) THEN NoneId
    ELSE IF likes[i].id # NoneId /\ likes[i].has_events THEN likes[i].id
    ELSE FirstSessionLike(likes, i + 1)

\* the session id auto_save_to_memory settles on
ExtractSessionId(callback_context) ==
    LET fromCtx == FirstContextSession(callback_context.ics, 1)
        fromAttr == IF fromCtx = NoneId THEN callback_context.session_id ELSE fromCtx
    IN IF fromAttr = NoneId THEN FirstSessionLike(callback_context.likes, 1)
       ELSE fromAttr

\* the session object the loop over the three attribute names leaves in
\* session_obj (events only), None when there is none
RECURSIVE ContextSessionObject(_, _)
ContextSessionObject(ics, i) ==
    IF i > Len(ics) THEN NoneSession
    ELSE IF ics[i].present /\ ics[i].has_session
         THEN [id |-> ics[i].id, events |-> ics[i].events]
    ELSE ContextSessionObject(ics, i + 1)

\* the callback saving the session object it found in the context instead
\* of fetching the session again
auto_save_to_memory_from_context(callback_context, faults, sessions, mem, app_name) ==
    LET session_id == ExtractSessionId(callback_context)
        fetched == get_session(sessions, app_name, session_id)
        held == ContextSessionObject(callback_context.ics, 1)
        saved == IF IsNone(held) \/ held.id = NoneId THEN fetched ELSE held
        none == [memory |-> mem, adds |-> <<>>, wrote |-> <<>>, raised |-> {},
                 outcome |-> "returned", session_id |-> session_id]
    IN
    IF session_id = NoneId THEN none
    ELSE IF "callback.get_session" \in faults
    THEN [none EXCEPT !.raised = {"callback.get_session"}]
    ELSE IF IsNone(fetched) THEN none
    ELSE IF "callback.add_session_to_memory" \in faults
    THEN [none EXCEPT !.adds = <<saved>>,
                      !.raised = {"callback.add_session_to_memory"}]
    ELSE [none EXCEPT !.memory = add_session_to_memory(mem, saved),
                      !.adds = <<saved>>, !.wrote = <<saved>>]

\* auto_save_to_memory(callback_context) of create_auto_save_callback(
\* memory_svc, session_svc, app_name, user_id): what it does to the memory
\* service, the sessions it passed to add_session_to_memory (adds) and those
\* the service took (wrote), the SDK calls that raised inside it, and how it
\* ended.  faults are the SDK calls that raise.  The try block catches everything, so the callback always returns.
auto_save_to_memory(callback_context, faults, sessions, mem, app_name) ==
    LET session_id == ExtractSessionId(callback_context)
        fetched == get_session(sessions, app_name, session_id)
        none == [memory |-> mem, adds |-> <<>>, wrote |-> <<>>, raised |-> {},
                 outcome |-> "returned", session_id |-> session_id]
    IN
    IF session_id = NoneId THEN none
    ELSE IF "callback.get_session" \in faults
    THEN [none EXCEPT !.raised = {"callback.get_session"}]
    ELSE IF IsNone(fetched) THEN none
    ELSE IF "callback.add_session_to_memory" \in faults
    THEN [none EXCEPT !.adds = <<fetched>>,
                      !.raised = {"callback.add_session_to_memory"}]
    ELSE [none EXCEPT !.memory = add_session_to_memory(mem, fetched),
                      !.adds = <<fetched>>, !.wrote = <<fetched>>]

\* ---- run_session (src/memory_mgmt.py) ----
\* the runners the scripts build: the module-level one (app_name
\* "MemoryDemoApp"), the one main() builds, and the ones whose agent has the
\* auto-save callback (auto_memory_section, test_persistent_memory)
Runners ==
    {[app_name |-> "MemoryDemoApp", auto_save |-> FALSE],
     [app_name |-> APP_NAME, auto_save |-> FALSE],
     [app_name |-> APP_NAME, auto_save |-> TRUE]}

\* runner_instance.run_async(...) for each of the n queries still to send,
\* on the state st of the call so far; the runner looks the session up under
\* its own app_name and raises when it finds none
RECURSIVE RunQueries(_, _, _, _, _)
RunQueries(st, runner_instance, session, n, faults) ==
    IF n = 0 \/ st.outcome = "raised" THEN st
    ELSE IF IsNone(session)
    THEN [st EXCEPT !.outcome = "raised", !.exc = "AttributeError"]
    ELSE IF "run_async" \in faults
    THEN [st EXCEPT !.outcome = "raised", !.exc = "run_async",
                    !.raised = @ \cup {"run_async"}]
    ELSE IF <<runner_instance.app_name, session.id>> \notin DOMAIN st.db
    THEN [st EXCEPT !.outcome = "raised", !.exc = "run_async",
                    !.raised = @ \cup {"run_async"}]
    ELSE
      LET key == <<runner_instance.app_name, session.id>>
          db1 == [st.db EXCEPT ![key] = @ \o TurnEvents]
          cb == auto_save_to_memory(
                    SdkContext([id |-> session.id, events |-> db1[key]]),
                    faults, db1, st.memory, APP_NAME)
          st1 == IF runner_instance.auto_save
                 THEN [st EXCEPT !.db = db1, !.memory = cb.memory,
                                 !.adds = @ \o cb.adds,
                                 !.wrote = @ \o cb.wrote,
                                 !.cb_raised = @ \cup cb.raised,
                                 !.turns = @ + 1]
                 ELSE [st EXCEPT !.db = db1, !.turns = @ + 1]
      IN RunQueries(st1, runner_instance, session, n - 1, faults)

\* run_session(runner_instance, user_queries, session_id) with n queries:
\* create the session, fall back to get_session when create_session raises
\* (it does when the session exists), then send the queries
run_session(runner_instance, n, session_id, faults, sessions, mem) ==
    LET exists == <<APP_NAME, session_id>> \in DOMAIN sessions
        createRaises == exists \/ "create_session" \in faults
        db1 == IF createRaises THEN sessions
               ELSE PutSession(sessions, APP_NAME, session_id, <<>>)
        getRaises == createRaises /\ "get_session" \in faults
        session == IF createRaises
                   THEN get_session(sessions, APP_NAME, session_id)
                   ELSE [id |-> session_id, events |-> <<>>]
        st0 == [db |-> db1, memory |-> mem, adds |-> <<>>, wrote |-> <<>>,
                raised |-> (IF createRaises THEN {"create_session"} ELSE {})
                           \cup (IF getRaises THEN {"get_session"} ELSE {}),
                cb_raised |-> {}, turns |-> 0,
                outcome |-> IF getRaises THEN "raised" ELSE "returned",
                exc |-> IF getRaises THEN "get_session" ELSE "none"]
    IN RunQueries(st0, runner_instance, session, n, faults)

\* the events a call may add must fit the bound
FitsBound(sessions, n) ==
    \A k \in DOMAIN sessions : Len(sessions[k]) + n * Len(TurnEvents) <= MaxEvents

\* the SDK calls that may fail for reasons of their own
RunSessionFaults ==
    {{}, {"create_session"}, {"get_session"}, {"run_async"},
     {"create_session", "get_session"},
     {"callback.get_session"}, {"callback.add_session_to_memory"}}

\* events stored under the persistent session
StoredIn(sessions) ==
    IF <<APP_NAME, PERSISTENT_SESSION_ID>> \in DOMAIN sessions
    THEN Len(sessions[<<APP_NAME, PERSISTENT_SESSION_ID>>]) ELSE 0

RECURSIVE WrittenByAll(_, _)
WrittenByAll(r, adds) ==
    IF adds = <<>> THEN {}
    ELSE WrittenBy(r, Head(adds)) \cup WrittenByAll(r, Tail(adds))

\* a script calls run_session
RunSession(runner_instance, n, faults) ==
    /\ FitsBound(db, n)
    /\ LET r == run_session(runner_instance, n, PERSISTENT_SESSION_ID, faults,
                            db, memory)
       IN /\ db' = r.db
          /\ memory' = r.memory
          /\ written' = written \cup WrittenByAll(run, r.wrote)
          /\ stored' = [stored EXCEPT !.total = @ + r.turns * Len(TurnEvents)]
          /\ last' = [helper |-> "run_session", runner |-> runner_instance,
                      queries |-> n, faults |-> faults,
                      raised |-> r.raised, cb_raised |-> r.cb_raised,
                      adds |-> r.adds, outcome |-> r.outcome, exc |-> r.exc]
    /\ UNCHANGED <<run, pluginVars, homeVars, sessVars, webVars>>

\* main(): session = get_session(...) after a run_session that returned,
\* then memory_service.add_session_to_memory(session)
SaveSessionToMemory ==
    LET session == get_session(db, APP_NAME, PERSISTENT_SESSION_ID)
    IN /\ ~IsNone(session)
       /\ memory' = add_session_to_memory(memory, session)
       /\ written' = written \cup WrittenBy(run, session)
       /\ last' = [helper |-> "add_session_to_memory", adds |-> <<session>>,
                   outcome |-> "returned", exc |-> "none"]
       /\ UNCHANGED <<db, stored, run, pluginVars, homeVars, sessVars, webVars>>

\* what the memory service can return: the events it holds
Memories(mem) ==
    {<<sid, n>> \in (DOMAIN mem) \X (1..MaxEvents) : n <= Len(mem[sid])}

\* memory_service.search_memory(app_name, user_id, query): what the service
\* holds is all a search (or preload_memory) can return
SearchMemory ==
    /\ last' = [helper |-> "search_memory", memories |-> Memories(memory)]
    /\ UNCHANGED <<db, memory, written, stored, run, pluginVars, homeVars, sessVars, webVars>>

\* a restart with the sessions kept in an InMemorySessionService: they are
\* gone with the process
Restart_in_memory_sessions ==
    /\ run < MaxRuns
    /\ run' = run + 1
    /\ memory' = <<>>
    /\ db' = <<>>
    /\ stored' = [stored EXCEPT !.at_start = stored.total]
    /\ last' = [helper |-> "restart"]
    /\ UNCHANGED <<written, pluginVars, homeVars, sessVars, webVars>>

\* the process ends and the script is started again: the module-level
\* memory_service = InMemoryMemoryService() starts empty, session_service =
\* DatabaseSessionService("sqlite:///agent_sessions.db") reopens the file
Restart ==
    /\ run < MaxRuns
    /\ run' = run + 1
    /\ memory' = <<>>
    /\ db' = db
    /\ stored' = [stored EXCEPT !.at_start = stored.total]
    /\ last' = [helper |-> "restart"]
    /\ UNCHANGED <<written, pluginVars, homeVars, sessVars, webVars>>

\* test_persistent_memory(): look the persistent session up, pick the
\* greeting, and send it through run_session with the auto-saving runner.
\* len(existing_session.events) raises on None, which the bare except catches.
TestPersistentMemory(faults) ==
    /\ FitsBound(db, 1)
    /\ LET lookupRaises == "test.get_session" \in faults
           existing_session == get_session(db, APP_NAME, PERSISTENT_SESSION_ID)
           is_first_run ==
               IF lookupRaises \/ IsNone(existing_session) THEN TRUE
               ELSE Len(existing_session.events) = 0
           runner == [app_name |-> APP_NAME, auto_save |-> TRUE]
           r == run_session(runner, 1, PERSISTENT_SESSION_ID, faults, db, memory)
       IN /\ db' = r.db
          /\ memory' = r.memory
          /\ written' = written \cup WrittenByAll(run, r.wrote)
          /\ stored' = [stored EXCEPT !.total = @ + r.turns * Len(TurnEvents)]
          /\ last' = [helper |-> "test_persistent_memory",
                      branch |-> IF is_first_run THEN "first_meeting"
                                 ELSE "welcome_back",
                      lookup_raised |-> lookupRaises,
                      found |-> existing_session,
                      run |-> run,
                      stored_before_run |-> stored.at_start,
                      faults |-> faults,
                      raised |-> r.raised, cb_raised |-> r.cb_raised,
                      adds |-> r.adds, outcome |-> r.outcome, exc |-> r.exc]
    /\ UNCHANGED <<run, pluginVars, homeVars, sessVars, webVars>>

TestFaults == {{}, {"test.get_session"}, {"get_session"}, {"run_async"}}

\* ---- the auto-save callback called with any context ----
StaleEvents == <<"user">>
ContextAttrs ==
    {<<a, b, c>> : a \in {CtxAbsent, CtxNoSession, CtxSession(NoneId, StaleEvents),
                          CtxSession(PERSISTENT_SESSION_ID, StaleEvents)},
                   b \in {CtxAbsent, CtxSession(PERSISTENT_SESSION_ID, StaleEvents)},
                   c \in {CtxAbsent, CtxSession(OtherSessionId, StaleEvents)}}
SessionLikes ==
    {<<>>,
     <<[id |-> OtherSessionId, has_events |-> FALSE],
       [id |-> NoneId, has_events |-> TRUE],
       [id |-> PERSISTENT_SESSION_ID, has_events |-> TRUE]>>}
Contexts ==
    [ics : ContextAttrs,
     session_id : {NoneId, PERSISTENT_SESSION_ID, OtherSessionId},
     likes : SessionLikes]
\* the contexts the SDK runner builds
RunnerContexts ==
    {SdkContext([id |-> sid, events |-> StaleEvents]) :
        sid \in {PERSISTENT_SESSION_ID, OtherSessionId}}
CallbackFaults == {{}, {"callback.get_session"}, {"callback.add_session_to_memory"}}

\* the runner (or anything else) calls the callback that
\* create_auto_save_callback(memory_service, session_service, APP_NAME,
\* USER_ID) returned
AutoSave(callback_context, faults) ==
    /\ LET r == auto_save_to_memory(callback_context, faults, db, memory, APP_NAME)
       IN /\ memory' = r.memory
          /\ written' = written \cup WrittenByAll(run, r.wrote)
          /\ last' = [helper |-> "auto_save_to_memory",
                      context |-> callback_context, faults |-> faults,
                      session_id |-> r.session_id,
                      raised |-> r.raised, adds |-> r.adds,
                      outcome |-> r.outcome, exc |-> "none"]
    /\ UNCHANGED <<db, stored, run, pluginVars, homeVars, sessVars, webVars>>

\* ---- create_research_runner_with_plugin (src/agents/research_agent/agent.py)
RunnerFaults == {{}, {"Runner(plugins)"}, {"Runner(plugins)", "Runner()"}}

\* Runner(..., plugins=[research_plugin]) in a try block; on any exception a
\* warning is logged and Runner(...) is built without plugins
create_research_runner_with_plugin(app_name, faults) ==
    IF "Runner(plugins)" \notin faults
    THEN [outcome |-> "returned", exc |-> "none", raised |-> {},
          runner |-> [agent |-> advanced_research_agent, app_name |-> app_name,
                      plugins |-> <<"research_plugin">>]]
    ELSE IF "Runner()" \in faults
    THEN [outcome |-> "raised", exc |-> "Runner()",
          raised |-> {"Runner(plugins)", "Runner()"}]
    ELSE [outcome |-> "returned", exc |-> "none", raised |-> {"Runner(plugins)"},
          runner |-> [agent |-> advanced_research_agent, app_name |-> app_name,
                      plugins |-> <<>>]]

CreateResearchRunnerWithPlugin(app_name, faults) ==
    /\ last' = [helper |-> "create_research_runner_with_plugin",
                faults |-> faults,
                call |-> create_research_runner_with_plugin(app_name, faults)]
    /\ UNCHANGED <<db, memory, written, stored, run, pluginVars, homeVars, sessVars, webVars>>

\* ---- run_research_agent (src/research_agent.py) ----
\* str.count(sub): non-overlapping occurrences, left to right
RECURSIVE CountOccurrences(_, _)
CountOccurrences(sub, s) ==
    IF Len(s) < Len(sub) THEN 0
    ELSE IF SubSeq(s, 1, Len(sub)) = sub
         THEN 1 + CountOccurrences(sub, SubSeq(s, Len(sub) + 1, Len(s)))
         ELSE CountOccurrences(sub, Tail(s))

PaperWord == <<"p","a","p","e","r">>
PapersWord == <<"p","a","p","e","r","s">>

\* the loop over the events run_async yields: count them and stop at the
\* first final response
RECURSIVE ConsumeEvents(_, _)
ConsumeEvents(events, agent_calls) ==
    IF events = <<>>
    THEN [response |-> <<>>, papers_count |-> 0, agent_calls |-> agent_calls,
          quality_score_hundredths |-> 0, logs |-> <<>>]
    ELSE IF Head(events).final
    THEN LET response_text == Head(events).text
         IN [response |-> response_text,
             papers_count |->
                 IF Contains(PapersWord, Lower(response_text))
                 THEN CountOccurrences(PaperWord, Lower(response_text)) ELSE 0,
             agent_calls |-> agent_calls + 1,
             \* round(min(len(response_text) / 100, 10.0), 2), in hundredths
             quality_score_hundredths |->
                 IF Len(response_text) < 1000 THEN Len(response_text) ELSE 1000,
             logs |-> <<>>]
    ELSE ConsumeEvents(Tail(events), agent_calls + 1)

\* run_research_agent with a handler that logs the run_async error and
\* returns the empty result instead of re-raising
run_research_agent_swallowing(events, faults) ==
    IF "create_session" \in faults
    THEN [outcome |-> "raised", exc |-> "create_session", raised |-> {"create_session"}]
    ELSE IF "Runner()" \in faults
    THEN [outcome |-> "raised", exc |-> "Runner()", raised |-> {"Runner()"}]
    ELSE IF "run_async" \in faults
    THEN [outcome |-> "returned", exc |-> "none", raised |-> {"run_async"},
          value |-> ConsumeEvents(<<>>, 0)]
    ELSE [outcome |-> "returned", exc |-> "none", raised |-> {},
          value |-> ConsumeEvents(events, 0)]

\* run_research_agent(query): a new InMemorySessionService, create_session,
\* Runner(...), then the events of run_async; only run_async is inside the
\* try block, whose handler logs and re-raises
run_research_agent(events, faults) ==
    IF "create_session" \in faults
    THEN [outcome |-> "raised", exc |-> "create_session", raised |-> {"create_session"}]
    ELSE IF "Runner()" \in faults
    THEN [outcome |-> "raised", exc |-> "Runner()", raised |-> {"Runner()"}]
    ELSE IF "run_async" \in faults
    THEN [outcome |-> "raised", exc |-> "run_async", raised |-> {"run_async"}]
    ELSE [outcome |-> "returned", exc |-> "none", raised |-> {},
          value |-> ConsumeEvents(events, 0)]

ResearchFaults == {{}, {"create_session"}, {"Runner()"}, {"run_async"}}
ResponseTexts == {<<"F","o","u","n","d"," ","2"," ","P","a","p","e","r","s",":"," ","p","a","p","e","r"," ","A",","," ","p","a","p","e","r"," ","B">>, <<"N","o"," ","r","e","s","u","l","t","s">>}
EventStreams ==
    {<<>>}
    \cup {<<[final |-> TRUE, text |-> t]>> : t \in ResponseTexts}
    \cup {<<[final |-> FALSE, text |-> <<>>], [final |-> TRUE, text |-> t],
            [final |-> TRUE, text |-> <<>>]>> : t \in ResponseTexts}

RunResearchAgent(events, faults) ==
    /\ last' = [helper |-> "run_research_agent", faults |-> faults,
                call |-> run_research_agent(events, faults)]
    /\ UNCHANGED <<db, memory, written, stored, run, pluginVars, homeVars, sessVars, webVars>>

SdkNext ==
    \/ \E rn \in Runners, n \in 1..MaxQueries, f \in RunSessionFaults :
          RunSession(rn, n, f)
    \/ SaveSessionToMemory
    \/ SearchMemory
    \/ Restart
    \/ \E f \in TestFaults : TestPersistentMemory(f)
    \/ \E c \in RunnerContexts, f \in CallbackFaults : AutoSave(c, f)
    \/ \E a \in {"research_app"}, f \in RunnerFaults :
          CreateResearchRunnerWithPlugin(a, f)
    \/ \E e \in EventStreams, f \in ResearchFaults : RunResearchAgent(e, f)

SdkInit ==
    /\ db = <<>>
    /\ memory = <<>>
    /\ written = {}
    /\ stored = [total |-> 0, at_start |-> 0]
    /\ run = 1
    /\ last = [helper |-> "none"]

\* ------------------------------------------------------------------------
\* Sessions of src/session.py
\* ------------------------------------------------------------------------
\* APP_NAME as rebound before the runners are built, and the name of
\* research_app_compacting
SessionAppName == "default"
CompactingAppName == "research_app_compacting"

\* the value of the session_service parameter when the caller passes none
NoneService == "None"
InMemorySessionService == "InMemorySessionService"
DatabaseSessionService == "DatabaseSessionService"
SessionServices == {InMemorySessionService, DatabaseSessionService}

\* the module-level runners: runner over the in-memory service, runner
\* re-bound over the database service, research_runner_compacting
InMemoryRunner ==
    [app_name |-> SessionAppName, session_service |-> InMemorySessionService]
DatabaseRunner ==
    [app_name |-> SessionAppName, session_service |-> DatabaseSessionService]
research_runner_compacting ==
    [app_name |-> CompactingAppName, session_service |-> DatabaseSessionService]

\* the loop over user_queries: run_async(session_id = session.id) on the
\* runner, which looks the session up in its own service under its own
\* app_name, raises when it finds none and otherwise appends the turn
RECURSIVE SendQueries(_, _, _, _, _)
SendQueries(st, runner_instance, session, n, faults) ==
    IF n = 0 \/ st.outcome = "raised" THEN st
    ELSE IF IsNone(session)
    THEN [st EXCEPT !.outcome = "raised", !.exc = "AttributeError"]
    ELSE IF "run_async" \in faults
    THEN [st EXCEPT !.outcome = "raised", !.exc = "run_async",
                    !.raised = @ \cup {"run_async"}]
    ELSE LET svc == runner_instance.session_service
             key == <<runner_instance.app_name, session.id>>
         IN IF key \notin DOMAIN st.stores[svc]
            THEN [st EXCEPT !.outcome = "raised", !.exc = "run_async",
                            !.raised = @ \cup {"run_async"}]
            ELSE SendQueries(
                     [st EXCEPT !.stores[svc][key] = @ \o TurnEvents,
                                !.turns = @ + 1],
                     runner_instance, session, n - 1, faults)

\* run_session with the session_service argument bound to a service: create
\* the session under the runner's app_name, fall back to get_session when
\* create_session raises (it does when the session exists), then send the
\* n queries ("No queries!" when there are none)
run_session_in_service(runner_instance, n, session_name, service, faults, st) ==
    LET app_name == runner_instance.app_name
        sessions == st[service]
        exists == <<app_name, session_name>> \in DOMAIN sessions
        createRaises == exists \/ "create_session" \in faults
        getRaises == createRaises /\ "get_session" \in faults
        session == IF createRaises
                   THEN get_session(sessions, app_name, session_name)
                   ELSE [id |-> session_name, events |-> <<>>]
        st0 == [stores |-> IF createRaises THEN st
                           ELSE [st EXCEPT ![service] =
                                    PutSession(sessions, app_name, session_name, <<>>)],
                raised |-> (IF createRaises THEN {"create_session"} ELSE {})
                           \cup (IF getRaises THEN {"get_session"} ELSE {}),
                turns |-> 0,
                outcome |-> IF getRaises THEN "raised" ELSE "returned",
                exc |-> IF getRaises THEN "get_session" ELSE "none"]
    IN SendQueries(st0, runner_instance, session, n, faults)

\* run_session(runner_instance, user_queries, session_name, session_service)
\* of src/session.py.  With session_service left at its default None,
\* None.create_session raises AttributeError inside the try block, the bare
\* except runs None.get_session, and that AttributeError leaves the function
\* before anything is created or sent.
session_run_session(runner_instance, n, session_name, service, faults, st) ==
    IF service = NoneService
    THEN [stores |-> st, raised |-> {}, turns |-> 0,
          outcome |-> "raised", exc |-> "AttributeError"]
    ELSE run_session_in_service(runner_instance, n, session_name, service,
                                faults, st)

\* the events a call may add to the runner's sessions must fit the bound
SessionFitsBound(st, n) ==
    \A svc \in DOMAIN st : \A k \in DOMAIN st[svc] :
        Len(st[svc][k]) + n * Len(TurnEvents) <= MaxEvents

SessionFaults == {{}, {"create_session"}, {"get_session"}, {"run_async"}}

\* the runners a caller can name while the module-level session_service is
\* bound as it is
RunnersInScope ==
    IF session_service = InMemorySessionService
    THEN {InMemoryRunner}
    ELSE {DatabaseRunner, research_runner_compacting}

CallRunSession(runner_instance, n, session_name, service, faults) ==
    /\ runner_instance \in RunnersInScope
    /\ SessionFitsBound(stores, n)
    /\ LET r == session_run_session(runner_instance, n, session_name, service,
                                    faults, stores)
       IN /\ stores' = r.stores
          /\ lastSession' = [helper |-> "run_session", runner |-> runner_instance,
                             queries |-> n, session_name |-> session_name,
                             session_service |-> service, faults |-> faults,
                             raised |-> r.raised, turns |-> r.turns,
                             outcome |-> r.outcome, exc |-> r.exc]
    /\ UNCHANGED session_service
    /\ UNCHANGED <<pluginVars, homeVars, sdkVars, webVars>>

\* main, main_with_followup, main_persistent, main_compaction: every caller
\* in the file passes a runner, the queries and a session name only
RunSessionAsCalled(runner_instance, n, session_name) ==
    CallRunSession(runner_instance, n, session_name, NoneService, {})

\* a call that passes the service the module-level name is bound to, as the
\* signature allows
RunSessionWithService(runner_instance, n, session_name, faults) ==
    CallRunSession(runner_instance, n, session_name, session_service, faults)

\* session_service = DatabaseSessionService(db_url = ...); the runners built
\* from here on are wired to it
SwitchToDatabase ==
    /\ session_service = InMemorySessionService
    /\ session_service' = DatabaseSessionService
    /\ lastSession' = [helper |-> "rebind"]
    /\ UNCHANGED stores
    /\ UNCHANGED <<pluginVars, homeVars, sdkVars, webVars>>

\* the script is run again: the in-memory service starts empty, the SQLite
\* file my_agent_data.db is still there
RestartSessionScript ==
    /\ session_service = DatabaseSessionService
    /\ session_service' = InMemorySessionService
    /\ stores' = [stores EXCEPT ![InMemorySessionService] = <<>>]
    /\ lastSession' = [helper |-> "restart"]
    /\ UNCHANGED <<pluginVars, homeVars, sdkVars, webVars>>

SessInit ==
    /\ session_service = InMemorySessionService
    /\ stores = [svc \in SessionServices |-> <<>>]
    /\ lastSession = [helper |-> "none"]

\* the runner and the session name of each call site: main and
\* main_with_followup, main_persistent, main_compaction
CallSites ==
    {<<InMemoryRunner, "stateful-agentic-session">>,
     <<DatabaseRunner, "test-db-session-01">>,
     <<research_runner_compacting, "compaction_demo">>}

SessionNext ==
    \/ \E c \in CallSites, n \in 0..MaxQueries :
          RunSessionAsCalled(c[1], n, c[2])
    \/ \E c \in CallSites, n \in 0..MaxQueries, f \in SessionFaults :
          RunSessionWithService(c[1], n, c[2], f)
    \/ SwitchToDatabase
    \/ RestartSessionScript

\* ------------------------------------------------------------------------
\* The /research route of src/research_agent.py
\* ------------------------------------------------------------------------
\* SESSION_ID; APP_NAME and USER_ID are the same in every call
RESEARCH_SESSION_ID == "research_session"

\* app.run(threaded = True): each request is handled on a thread of its own
Threads == {"t1", "t2"}

\* data.get("query", ""): a query text, or nothing
WebQueries == {"", "q"}

NoRequest == [id |-> 0, query |-> "", service |-> 0, seen |-> <<>>,
              outcome |-> "none", exc |-> "none", agent_calls |-> 0]

\* the session under which every call stores its conversation
ResearchKey == <<"research_agent", RESEARCH_SESSION_ID>>

\* one session service built at module level and shared by every call
research_session_service_shared(created) == 1

\* session_service = InMemorySessionService() inside run_research_agent: an
\* instance of its own for the call, after the ones created so far
research_session_service(created) == created + 1

\* the instances with an empty service i added when i is new
WithInstance(insts, i) ==
    IF i \in DOMAIN insts THEN insts ELSE Append(insts, <<>>)

\* research(): the POST is accepted; without a query the route answers
\* "No query provided", otherwise it runs asyncio.run(run_research_agent(query))
Research(t, query) ==
    /\ pc[t] = "idle"
    /\ served < MaxRequests
    /\ served' = served + 1
    /\ IF query = ""
       THEN /\ request' = [request EXCEPT ![t] =
                              [NoRequest EXCEPT !.id = served + 1,
                                                !.outcome = "no_query"]]
            /\ UNCHANGED pc
       ELSE /\ request' = [request EXCEPT ![t] =
                              [NoRequest EXCEPT !.id = served + 1,
                                                !.query = query]]
            /\ pc' = [pc EXCEPT ![t] = "setup"]
    /\ UNCHANGED instances
    /\ UNCHANGED <<pluginVars, homeVars, sdkVars, sessVars>>

\* session_service = InMemorySessionService(); memory_service = ...
SetupServices(t) ==
    /\ pc[t] = "setup"
    /\ LET i == research_session_service(Len(instances))
       IN /\ instances' = WithInstance(instances, i)
          /\ request' = [request EXCEPT ![t].service = i]
    /\ pc' = [pc EXCEPT ![t] = "create"]
    /\ UNCHANGED served
    /\ UNCHANGED <<pluginVars, homeVars, sdkVars, sessVars>>

\* the request of thread t, answered with the error the route's handler
\* turns an exception into
Failed(t, exc) ==
    /\ request' = [request EXCEPT ![t].outcome = "raised", ![t].exc = exc]
    /\ pc' = [pc EXCEPT ![t] = "idle"]

\* session = await session_service.create_session(APP_NAME, USER_ID,
\* SESSION_ID): raises when the service already holds that session or for a
\* reason of its own; outside the try block, so the route's handler gets it
CreateSession(t, faults) ==
    /\ pc[t] = "create"
    /\ LET i == request[t].service
       IN IF ResearchKey \in DOMAIN instances[i]
          THEN Failed(t, "AlreadyExistsError") /\ UNCHANGED instances
          ELSE IF "create_session" \in faults
          THEN Failed(t, "create_session") /\ UNCHANGED instances
          ELSE /\ instances' = [instances EXCEPT ![i] =
                                  PutSession(@, ResearchKey[1], ResearchKey[2],
                                             <<>>)]
               /\ pc' = [pc EXCEPT ![t] = "run"]
               /\ UNCHANGED request
    /\ UNCHANGED served
    /\ UNCHANGED <<pluginVars, homeVars, sdkVars, sessVars>>

\* the events run_async may yield to the loop
WebEventStreams ==
    {e \in EventStreams : Len(e) <= 1}

\* runner = Runner(...); events = runner.run_async(USER_ID, SESSION_ID,
\* content): the runner finds the session in the call's service, appends the
\* user's message and hands the session, with everything in it, to the agent
RunAsync(t, faults) ==
    /\ pc[t] = "run"
    /\ LET i == request[t].service
           call == run_research_agent(<<>>, faults)
           mine == [author |-> "user", request |-> request[t].id]
       IN IF call.outcome = "raised"
          THEN Failed(t, call.exc) /\ UNCHANGED instances
          ELSE /\ instances' = [instances EXCEPT ![i][ResearchKey] =
                                  Append(@, mine)]
               /\ request' = [request EXCEPT ![t].seen =
                                  Append(instances[i][ResearchKey], mine)]
               /\ pc' = [pc EXCEPT ![t] = "stream"]
    /\ UNCHANGED served
    /\ UNCHANGED <<pluginVars, homeVars, sdkVars, sessVars>>

\* async for event in events: the agent's reply is stored in the session and
\* the loop builds the result the route returns
StreamEvents(t, events) ==
    /\ pc[t] = "stream"
    /\ LET i == request[t].service
           call == run_research_agent(events, {})
           reply == [author |-> "model", request |-> request[t].id]
       IN /\ instances' = [instances EXCEPT ![i][ResearchKey] =
                              IF events = <<>> THEN @ ELSE Append(@, reply)]
          /\ request' = [request EXCEPT ![t].outcome = call.outcome,
                                        ![t].agent_calls = call.value.agent_calls]
    /\ pc' = [pc EXCEPT ![t] = "idle"]
    /\ UNCHANGED served
    /\ UNCHANGED <<pluginVars, homeVars, sdkVars, sessVars>>

WebFaults == {{}, {"Runner()"}, {"run_async"}}

WebInit ==
    /\ pc = [t \in Threads |-> "idle"]
    /\ request = [t \in Threads |-> NoRequest]
    /\ instances = <<>>
    /\ served = 0

WebNext ==
    \/ \E t \in Threads, q \in WebQueries : Research(t, q)
    \/ \E t \in Threads : SetupServices(t)
    \/ \E t \in Threads, f \in {{}, {"create_session"}} : CreateSession(t, f)
    \/ \E t \in Threads, f \in WebFaults : RunAsync(t, f)
    \/ \E t \in Threads, e \in WebEventStreams : StreamEvents(t, e)

\* ------------------------------------------------------------------------
\* Specifications: one per subsystem; the variables of the other subsystems
\* stay at their initial values
\* ------------------------------------------------------------------------
InitPlugin == PluginInit /\ HomeInit /\ SdkInit /\ SessInit /\ WebInit

SpecPlugin == InitPlugin /\ [][PluginNext]_vars

InitHome ==
    HomeInit /\ PluginInit /\ kind = "basic" /\ SdkInit /\ SessInit /\ WebInit

SpecHome == InitHome /\ [][HomeNext]_vars

InitSdk ==
    SdkInit /\ PluginInit /\ kind = "basic" /\ HomeInit /\ SessInit /\ WebInit

SpecSdk == InitSdk /\ [][SdkNext]_vars

\* the auto-save callback on its own, called with every shape of context,
\* over the session stores the scripts can have produced
SessionStores ==
    {<<>>,
     PutSession(<<>>, APP_NAME, PERSISTENT_SESSION_ID, <<>>),
     PutSession(<<>>, APP_NAME, PERSISTENT_SESSION_ID, TurnEvents),
     PutSession(<<>>, APP_NAME, PERSISTENT_SESSION_ID, TurnEvents \o TurnEvents)}

InitAutoSave ==
    /\ db \in SessionStores
    /\ memory = <<>>
    /\ written = {}
    /\ stored = [total |-> StoredIn(db), at_start |-> 0]
    /\ run = 1
    /\ last = [helper |-> "none"]
    /\ PluginInit /\ kind = "basic"
    /\ HomeInit
    /\ SessInit /\ WebInit

AutoSaveNext ==
    \E c \in Contexts, f \in CallbackFaults : AutoSave(c, f)

SpecAutoSave == InitAutoSave /\ [][AutoSaveNext]_vars

InitSession ==
    SessInit /\ PluginInit /\ kind = "basic" /\ HomeInit /\ SdkInit /\ WebInit

SpecSession == InitSession /\ [][SessionNext]_vars

InitWeb ==
    WebInit /\ PluginInit /\ kind = "basic" /\ HomeInit /\ SdkInit /\ SessInit

SpecWeb == InitWeb /\ [][WebNext]_vars

\* ------------------------------------------------------------------------
\* Properties of the plugins
\* ------------------------------------------------------------------------

\* C1: for every plugin class, agent_count is the number of
\* before_agent_callback invocations and llm_request_count the number of
\* before_model_callback invocations since construction or the last
\* reset_stats, whatever mix of before_agent, before_model and after_agent
\* callbacks was delivered.
C1_CountsMatchInvocations ==
    /\ agent_count = n_before_agent
    /\ llm_request_count = n_before_model

\* C1 witness: two agent runs and one model request have been counted and an
\* after_agent_callback was the last callback delivered.
C1_Witness ==
    /\ n_before_agent = 2
    /\ n_before_model = 1
    /\ agent_count = 2
    /\ llm_request_count = 1
    /\ lastCall.cb = "after_agent"

\* C2: tool_count (total_tool_count in get_stats of the standalone classes)
\* is the number of tool calls the runner made since construction or the
\* last reset_stats.
C2_ToolCountMatchesToolCalls ==
    /\ tool_count = n_tool_calls
    /\ kind # "integrated" =>
          CountInvocationPlugin_get_stats.total_tool_count = n_tool_calls

\* C3: in the research plugins a before_agent_callback for
\* research_search_agent adds one to search_queries and leaves paper_analyses
\* alone, and one for research_analysis_agent adds one to paper_analyses and
\* leaves search_queries alone.
C3_SeparateTracking ==
    [][ (/\ kind \in {"research", "integrated"}
         /\ calls' = calls + 1
         /\ lastCall'.cb = "before_agent")
        =>
        /\ lastCall'.agent = research_search_agent =>
              /\ search_queries' = search_queries + 1
              /\ paper_analyses' = paper_analyses
        /\ lastCall'.agent = research_analysis_agent =>
              /\ paper_analyses' = paper_analyses + 1
              /\ search_queries' = search_queries ]_vars

\* ------------------------------------------------------------------------
\* Properties of the smart-home tool functions
\* ------------------------------------------------------------------------

\* C4: the smart-home functions keep no state: whatever control_device and
\* create_automation_routine calls came before, list_smart_devices,
\* check_security_status and get_energy_usage return what they returned at
\* the start, and the living-room lights are still listed as "on" after a
\* successful "off" command.
C4_ReadOutsUnchanged ==
    /\ observed.fn = "list_smart_devices" => observed.value = baseline.devices
    /\ observed.fn = "check_security_status" => observed.value = baseline.security
    /\ observed.fn = "get_energy_usage" => observed.value = baseline.energy
    /\ (/\ observed.fn = "list_smart_devices"
        /\ observed.after.fn = "control_device"
        /\ observed.after.device_id = "living_room_lights"
        /\ observed.after.action = "off"
        /\ observed.after_success)
       => /\ observed.value[1].id = "living_room_lights"
          /\ observed.value[1].status = "on"

\* C4 witness: the device list was read right after a successful "off"
\* command to the living-room lights, and a routine was created since.
C4_Witness ==
    /\ observed.fn = "list_smart_devices"
    /\ observed.after.fn = "control_device"
    /\ observed.after.device_id = "living_room_lights"
    /\ observed.after.action = "off"
    /\ observed.after_success
    /\ lastHomeCall.fn = "create_automation_routine"

\* C6: a control_device result with success = True also has a status field.
C6_SuccessHasStatus ==
    (lastHomeCall.fn = "control_device" /\ LastSucceeded)
       => "status" \in DOMAIN result

\* C7: control_device with a device id that list_smart_devices does not
\* return gives exactly success = False and the error "Device <id> not
\* found" (so no status field), whatever the action and value.
C7_UnknownDeviceRejected ==
    (/\ lastHomeCall.fn = "control_device"
     /\ lastHomeCall.device_id \notin KnownDeviceIds)
       => /\ DOMAIN result = {"success", "error"}
          /\ result.success = FALSE
          /\ result.error = <<"Device ", lastHomeCall.device_id, " not found">>

\* C7 witness: an unknown device was sent an action a known device supports.
C7_Witness ==
    /\ lastHomeCall.fn = "control_device"
    /\ lastHomeCall.device_id = "unknown_device"
    /\ lastHomeCall.action = "lock"
    /\ result.success = FALSE

\* ------------------------------------------------------------------------
\* Properties of the session and memory helpers
\* ------------------------------------------------------------------------

\* the record of the last call of one of the four helpers C5 names
C5_Call ==
    IF last.helper \in {"create_research_runner_with_plugin", "run_research_agent"}
    THEN last.call ELSE last
C5_Helpers ==
    {"run_session", "auto_save_to_memory", "create_research_runner_with_plugin",
     "run_research_agent"}

\* C5 (as claimed): whenever an SDK call raises inside run_session, the
\* auto-save callback, create_research_runner_with_plugin or
\* run_research_agent, the helper ends by raising that exception.
C5_ExceptionsForwarded ==
    (last.helper \in C5_Helpers /\ C5_Call.raised # {})
       => /\ C5_Call.outcome = "raised"
          /\ C5_Call.exc \in C5_Call.raised

\* C5 (amended): forwarded are the exceptions of the fallback get_session
\* and of run_async in run_session, and every SDK exception in
\* run_research_agent.  An exception of create_session in run_session never
\* reaches the caller (get_session is called instead), the auto-save callback
\* always returns
\* normally, and create_research_runner_with_plugin answers a failed Runner
\* construction with a Runner without plugins, forwarding only the failure
\* of that second construction.
C5_ForwardedOrReplaced ==
    /\ last.helper = "run_session" =>
          /\ "get_session" \in last.raised =>
                last.outcome = "raised" /\ last.exc = "get_session"
          /\ "run_async" \in last.raised =>
                last.outcome = "raised" /\ last.exc = "run_async"
          /\ last.exc # "create_session"
    /\ last.helper = "auto_save_to_memory" =>
          last.outcome = "returned" /\ last.exc = "none"
    /\ last.helper = "create_research_runner_with_plugin" =>
          /\ last.call.raised = {"Runner(plugins)"} =>
                /\ last.call.outcome = "returned"
                /\ last.call.runner.plugins = <<>>
          /\ "Runner()" \in last.call.raised =>
                last.call.outcome = "raised" /\ last.call.exc = "Runner()"
    /\ last.helper = "run_research_agent" =>
          (last.call.raised # {} =>
              /\ last.call.outcome = "raised"
              /\ last.call.exc \in last.call.raised)

\* C5 witness: run_async raised inside run_research_agent and the call
\* ended with that exception.
C5_Witness ==
    /\ last.helper = "run_research_agent"
    /\ last.call.raised = {"run_async"}
    /\ last.call.outcome = "raised"

\* the session id a context identifies, in the order the claim lists the
\* routes: the session of the first context attribute that has one, else the
\* session_id attribute, else the first attribute with an id and events
C8_Identified(c) ==
    LET withSession == {i \in 1..Len(c.ics) : c.ics[i].present /\ c.ics[i].has_session}
        first == CHOOSE i \in withSession : \A j \in withSession : i <= j
        likeOnes == {i \in 1..Len(c.likes) :
                        c.likes[i].id # NoneId /\ c.likes[i].has_events}
        firstLike == CHOOSE i \in likeOnes : \A j \in likeOnes : i <= j
    IN IF withSession # {} /\ c.ics[first].id # NoneId THEN c.ics[first].id
       ELSE IF c.session_id # NoneId THEN c.session_id
       ELSE IF likeOnes # {} THEN c.likes[firstLike].id
       ELSE NoneId

\* C8: each time the auto-save callback runs with a context that identifies
\* a session, and the session service returns that session for the
\* callback's app_name and user_id, add_session_to_memory is called exactly
\* once, with the session as fetched from the service and not the object
\* held by the context.
C8_SavesFetchedSessionOnce ==
    (/\ last.helper = "auto_save_to_memory"
     /\ C8_Identified(last.context) # NoneId
     /\ <<APP_NAME, C8_Identified(last.context)>> \in DOMAIN db
     /\ "callback.get_session" \notin last.faults)
       => /\ Len(last.adds) = 1
          /\ last.adds[1] =
                [id |-> C8_Identified(last.context),
                 events |-> db[<<APP_NAME, C8_Identified(last.context)>>]]

\* C8 witness: the context held the persistent session with fewer events
\* than the service has, and the session saved is the one from the service.
C8_Witness ==
    /\ last.helper = "auto_save_to_memory"
    /\ last.context.ics[1] = CtxSession(PERSISTENT_SESSION_ID, StaleEvents)
    /\ Len(last.adds) = 1
    /\ last.adds[1].events = TurnEvents \o TurnEvents
    /\ PERSISTENT_SESSION_ID \in DOMAIN memory

\* C9: memory is persistent across runs: what add_session_to_memory wrote
\* in an earlier run is returned by a search in a later run.
C9_MemorySurvivesRestart ==
    last.helper = "search_memory" =>
       \A w \in written : w[1] < run => <<w[2], w[3]>> \in last.memories

C13_ResetClearsAllCounters ==
    lastCall.cb = "reset" =>
        /\ get_stats.total_agent_count = 0
        /\ get_stats.total_tool_count = 0
        /\ get_stats.total_llm_request_count = 0
        /\ get_stats.session_stats = <<>>
        /\ get_stats.active_sessions = 0
        /\ kind = "research" =>
              /\ get_research_stats.search_queries = 0
              /\ get_research_stats.paper_analyses = 0
              /\ get_research_stats.quality_checks = 0

\* C14: get_stats() of the plugin made by create_invocation_plugin("research")
\* has a field agent_count, and it holds the number of agent invocations
\* counted so far.
C14_ResearchStatsHaveAgentCount ==
    kind = "research" =>
        /\ "agent_count" \in DOMAIN get_stats
        /\ get_stats.agent_count = n_before_agent

\* ------------------------------------------------------------------------
\* Properties of run_session (src/session.py)
\* ------------------------------------------------------------------------

\* s is a prefix of t
C11_IsPrefix(s, t) == Len(s) <= Len(t) /\ SubSeq(t, 1, Len(s)) = s

\* n turns of events
RECURSIVE C11_Turns(_)
C11_Turns(n) == IF n = 0 THEN <<>> ELSE TurnEvents \o C11_Turns(n - 1)

\* C11: a run_session call in which no SDK call fails for reasons of its own
\* leaves a session under the given name in the runner's session service
\* (created when there was none, the existing one otherwise); the call
\* continues an existing session, whose earlier events all stay in place in
\* front of the new turns; and no call removes, replaces or empties a
\* session of any service.
C11_CreateOrRetrieve ==
    [][ lastSession'.helper = "run_session" =>
          LET svc == lastSession'.runner.session_service
              key == <<lastSession'.runner.app_name, lastSession'.session_name>>
          IN /\ lastSession'.faults = {} =>
                   /\ key \in DOMAIN stores'[svc]
                   /\ stores'[svc][key] =
                         (IF key \in DOMAIN stores[svc] THEN stores[svc][key]
                          ELSE <<>>) \o C11_Turns(lastSession'.queries)
             /\ \A s \in SessionServices : \A k \in DOMAIN stores[s] :
                   /\ k \in DOMAIN stores'[s]
                   /\ C11_IsPrefix(stores[s][k], stores'[s][k]) ]_vars

\* C12: run_session called with a runner, the queries and a session name and
\* no session_service argument returns, the named session then exists in the
\* service the module-level session_service is bound to, and every query
\* was sent to it.
C12_DefaultCallReachesNamedSession ==
    (/\ lastSession.helper = "run_session"
     /\ lastSession.session_service = NoneService) =>
        /\ lastSession.outcome = "returned"
        /\ <<lastSession.runner.app_name, lastSession.session_name>>
              \in DOMAIN stores[session_service]
        /\ lastSession.turns = lastSession.queries

\* ------------------------------------------------------------------------
\* Properties of the /research route (src/research_agent.py)
\* ------------------------------------------------------------------------

\* the events stored under research_session in service instance i
C15_EventsOf(i) ==
    IF ResearchKey \in DOMAIN instances[i] THEN instances[i][ResearchKey]
    ELSE <<>>

\* C15: however the /research requests interleave on the server's threads,
\* no run_research_agent call fails because the session research_session
\* already exists, the session a call hands to its agent holds events of
\* that call's query only, and no session service instance ever holds
\* events of two queries.
C15_CallsAreIsolated ==
    /\ \A t \in Threads :
          /\ request[t].exc # "AlreadyExistsError"
          /\ \A n \in 1..Len(request[t].seen) :
                request[t].seen[n].request = request[t].id
    /\ \A i \in DOMAIN instances :
          \A m, n \in 1..Len(C15_EventsOf(i)) :
             C15_EventsOf(i)[m].request = C15_EventsOf(i)[n].request

\* C15 witness: after an earlier query was answered, two queries run at the
\* same time on the two threads, each with its own message in its own
\* session.
C15_Witness ==
    /\ served = 3
    /\ Len(instances) = 3
    /\ C15_EventsOf(1) = <<[author |-> "user", request |-> 1],
                           [author |-> "model", request |-> 1]>>
    /\ \A t \in Threads :
          /\ pc[t] = "stream"
          /\ request[t].seen = <<[author |-> "user", request |-> request[t].id]>>
    /\ request["t1"].service # request["t2"].service

====
